---------------------------- MODULE Spec2Model ----------------------------
(***************************************************************************)
(* The email-generation core of app/: the request pipeline of             *)
(* generate_email_service (validate_description, infer_controls,           *)
(* build_prompt, call_llm, safe_parse_json, validate_email_output), the    *)
(* lazily loaded intent classifier behind infer_controls, and the worker   *)
(* threads that run requests against the classifier's module globals.      *)
(*                                                                         *)
(* Text is kept run-length encoded: a string is a sequence of runs         *)
(* [c, n], n >= 1 characters of class c.  The classes are "sp" (blank),    *)
(* "nl" (newline), "ch" (any other character), "lb" and "rb" (the square   *)
(* brackets) and whole words such as "subject".  A model reply is a        *)
(* sequence of lexical tokens: the JSON punctuation, string literals       *)
(* (carrying their text), numbers, whitespace and prose characters.        *)
(* Confidences are percentages: 0.6 is 60.                                 *)
(***************************************************************************)
EXTENDS Integers, Sequences, FiniteSets, TLC

\* ------------------------------------------------------------------ bounds
NumThreads == 2
MaxDescRuns == 3

\* ------------------------------------------------------- program constants
MinDescLen == 10
MaxDescLen == 500
SubjectMaxLen == 200
BodyMinLen == 10
PromptSubjectMax == 100
INTENT_CONFIDENCE_THRESHOLD == 60

Threads == 1..NumThreads

\* -------------------------------------------------------------------- text
Run(c, n) == [c |-> c, n |-> n]
Chars(n) == <<Run("ch", n)>>
Spaces(n) == <<Run("sp", n)>>
Word(w, n) == <<Run(w, n)>>

\* len(s)
RECURSIVE StrLen(_)
StrLen(s) == IF s = <<>> THEN 0 ELSE Head(s).n + StrLen(Tail(s))

\* str.isspace for one character class
IsSpace(c) == c \in {"sp", "nl"}

RECURSIVE LStrip(_)
LStrip(s) == IF s # <<>> /\ IsSpace(Head(s).c) THEN LStrip(Tail(s)) ELSE s

RECURSIVE RStrip(_)
RStrip(s) ==
    IF s # <<>> /\ IsSpace(s[Len(s)].c) THEN RStrip(SubSeq(s, 1, Len(s) - 1)) ELSE s

\* s.strip()
Strip(s) == RStrip(LStrip(s))

\* PLACEHOLDER_PATTERN.search(s): re.compile(r"\[.*?\]"), where "." matches
\* no newline
PlaceholderSearch(s) ==
    \E i \in 1..Len(s) : \E j \in 1..Len(s) :
        /\ i < j
        /\ s[i].c = "lb"
        /\ s[j].c = "rb"
        /\ \A k \in (i + 1)..(j - 1) : s[k].c # "nl"

\* ------------------------------------------------------------------ errors
NoError == [type |-> "", code |-> "", msg |-> "", field |-> ""]
ServiceError(code, message) ==
    [type |-> "ServiceError", code |-> code, msg |-> message, field |-> ""]
ValueError(message, f) ==
    [type |-> "ValueError", code |-> "", msg |-> message, field |-> f]
OtherError(type) == [type |-> type, code |-> "", msg |-> "", field |-> ""]

\* -------------------------------------------------------- python values
PyNull == [ty |-> "null", s |-> <<>>, items |-> <<>>, map |-> <<>>]
PyNum == [ty |-> "num", s |-> <<>>, items |-> <<>>, map |-> <<>>]
PyStr(s) == [ty |-> "str", s |-> s, items |-> <<>>, map |-> <<>>]
PyList(items) == [ty |-> "list", s |-> <<>>, items |-> items, map |-> <<>>]
PyDict(map) == [ty |-> "dict", s |-> <<>>, items |-> <<>>, map |-> map]

\* A JSON object as written in a document: its members in order.
ObjLit(items) == [ty |-> "obj", s |-> <<>>, items |-> items, map |-> <<>>]

\* The key-value pairs a JSON document denotes (a later member replaces an
\* earlier one of the same key).
RECURSIVE PyOf(_)
RECURSIVE PairsOf(_)
RECURSIVE ListOf(_)
PyOf(v) ==
    CASE v.ty = "obj" -> PyDict(PairsOf(v.items))
      [] v.ty = "list" -> PyList(ListOf(v.items))
      [] OTHER -> v
PairsOf(items) ==
    IF items = <<>> THEN <<>>
    ELSE LET n == Len(items) IN
         (items[n][1] :> PyOf(items[n][2])) @@ PairsOf(SubSeq(items, 1, n - 1))
ListOf(items) ==
    IF items = <<>> THEN <<>> ELSE <<PyOf(items[1])>> \o ListOf(Tail(items))

\* ------------------------------------------------------------- reply text
Tok(k) == [k |-> k, s |-> <<>>]
StrTok(s) == [k |-> "str", s |-> s]
Prose(n) == [i \in 1..n |-> Tok("x")]

\* not text or not text.strip()
IsBlank(text) == \A i \in 1..Len(text) : text[i].k = "ws"

RECURSIVE SkipWs(_, _)
SkipWs(toks, i) ==
    IF i <= Len(toks) /\ toks[i].k = "ws" THEN SkipWs(toks, i + 1) ELSE i

ParseFail == [ok |-> FALSE, val |-> PyNull, next |-> 0]
ParseOk(v, next) == [ok |-> TRUE, val |-> v, next |-> next]

\* json's scanner: one value starting at token i (whitespace is skipped by
\* the callers, as in json.decoder)
RECURSIVE ParseValue(_, _)
RECURSIVE ParseMembers(_, _, _)
RECURSIVE ParseItems(_, _, _)
ParseValue(toks, i) ==
    IF i > Len(toks) THEN ParseFail
    ELSE CASE toks[i].k = "str" -> ParseOk(PyStr(toks[i].s), i + 1)
           [] toks[i].k = "num" -> ParseOk(PyNum, i + 1)
           [] toks[i].k = "null" -> ParseOk(PyNull, i + 1)
           [] toks[i].k = "{" ->
                LET j == SkipWs(toks, i + 1) IN
                IF j <= Len(toks) /\ toks[j].k = "}"
                THEN ParseOk(PyDict(<<>>), j + 1)
                ELSE ParseMembers(toks, j, <<>>)
           [] toks[i].k = "[" ->
                LET j == SkipWs(toks, i + 1) IN
                IF j <= Len(toks) /\ toks[j].k = "]"
                THEN ParseOk(PyList(<<>>), j + 1)
                ELSE ParseItems(toks, j, <<>>)
           [] OTHER -> ParseFail

\* JSONObject after "{": "key" : value , ... } ; a repeated key keeps the
\* last value
ParseMembers(toks, i, acc) ==
    IF i > Len(toks) \/ toks[i].k # "str" THEN ParseFail
    ELSE LET c == SkipWs(toks, i + 1) IN
         IF c > Len(toks) \/ toks[c].k # ":" THEN ParseFail
         ELSE LET v == ParseValue(toks, SkipWs(toks, c + 1)) IN
              IF ~v.ok THEN ParseFail
              ELSE LET e == SkipWs(toks, v.next)
                       acc2 == (toks[i].s :> v.val) @@ acc
                   IN  IF e > Len(toks) THEN ParseFail
                       ELSE IF toks[e].k = "}" THEN ParseOk(PyDict(acc2), e + 1)
                       ELSE IF toks[e].k = ","
                            THEN ParseMembers(toks, SkipWs(toks, e + 1), acc2)
                       ELSE ParseFail

\* JSONArray after "[": value , ... ]
ParseItems(toks, i, acc) ==
    LET v == ParseValue(toks, i) IN
    IF ~v.ok THEN ParseFail
    ELSE LET e == SkipWs(toks, v.next)
             acc2 == Append(acc, v.val)
         IN  IF e > Len(toks) THEN ParseFail
             ELSE IF toks[e].k = "]" THEN ParseOk(PyList(acc2), e + 1)
             ELSE IF toks[e].k = ","
                  THEN ParseItems(toks, SkipWs(toks, e + 1), acc2)
             ELSE ParseFail

\* json.loads(s): one value, whitespace around it, nothing else
JsonLoads(toks) ==
    LET v == ParseValue(toks, SkipWs(toks, 1)) IN
    IF v.ok /\ SkipWs(toks, v.next) = Len(toks) + 1 THEN v ELSE ParseFail

\* json.dumps(v): separators ", " and ": "; a dict is given as its items in
\* insertion order
RECURSIVE Serialise(_)
RECURSIVE SerialiseItems(_)
RECURSIVE SerialiseList(_)
Serialise(v) ==
    CASE v.ty = "str" -> <<StrTok(v.s)>>
      [] v.ty = "num" -> <<Tok("num")>>
      [] v.ty = "null" -> <<Tok("null")>>
      [] v.ty = "list" -> <<Tok("[")>> \o SerialiseList(v.items) \o <<Tok("]")>>
      [] v.ty = "obj" -> <<Tok("{")>> \o SerialiseItems(v.items) \o <<Tok("}")>>
SerialiseItems(items) ==
    IF items = <<>> THEN <<>>
    ELSE <<StrTok(items[1][1]), Tok(":"), Tok("ws")>> \o Serialise(items[1][2])
         \o (IF Len(items) > 1 THEN <<Tok(","), Tok("ws")>> ELSE <<>>)
         \o SerialiseItems(Tail(items))
SerialiseList(items) ==
    IF items = <<>> THEN <<>>
    ELSE Serialise(items[1])
         \o (IF Len(items) > 1 THEN <<Tok(","), Tok("ws")>> ELSE <<>>)
         \o SerialiseList(Tail(items))

\* ------------------------------------------------------- validator.py
\* validate_description with the short test on the raw length: len(desc) < 10
validate_description_unstripped(desc) ==
    IF desc.none \/ StrLen(desc.runs) = 0 \/ StrLen(desc.runs) < MinDescLen
    THEN ServiceError("INVALID_INPUT", "Description too short")
    ELSE IF StrLen(desc.runs) > MaxDescLen
         THEN ServiceError("INVALID_INPUT", "Description too long")
         ELSE NoError

\* A description is [none, runs, feat]: none for an absent value, runs its
\* text, feat what the pickled classifier computes on that text (see
\* predict_intent).
validate_description(desc) ==
    IF desc.none \/ StrLen(desc.runs) = 0 \/ StrLen(Strip(desc.runs)) < MinDescLen
    THEN ServiceError("INVALID_INPUT", "Description too short")
    ELSE IF StrLen(desc.runs) > MaxDescLen
         THEN ServiceError("INVALID_INPUT", "Description too long")
         ELSE NoError

\* ------------------------------------------------------- json_guard.py
Min(S) == CHOOSE x \in S : \A y \in S : x <= y
Max(S) == CHOOSE x \in S : \A y \in S : x >= y

\* The pattern made lazy, r"\{.*?\}": from the first "{" to the first "}"
\* after it
JSON_BLOCK_RE_lazy(text) ==
    LET opens == {i \in 1..Len(text) : text[i].k = "{"}
        closes == {i \in 1..Len(text) : text[i].k = "}"}
    IN  IF opens = {} \/ closes = {} \/ Max(closes) < Min(opens)
        THEN [found |-> FALSE, from |-> 0, to |-> 0]
        ELSE [found |-> TRUE, from |-> Min(opens),
              to |-> Min({j \in closes : j > Min(opens)})]

\* JSON_BLOCK_RE.search(text), re.compile(r"\{.*\}", re.DOTALL): the leftmost
\* "{" that has a "}" after it, up to the last "}" of the text
JSON_BLOCK_RE(text) ==
    LET opens == {i \in 1..Len(text) : text[i].k = "{"}
        closes == {i \in 1..Len(text) : text[i].k = "}"}
    IN  IF opens = {} \/ closes = {} \/ Max(closes) < Min(opens)
        THEN [found |-> FALSE, from |-> 0, to |-> 0]
        ELSE [found |-> TRUE, from |-> Min(opens), to |-> Max(closes)]

\* safe_parse_json without its except clause: the JSONDecodeError leaves it
safe_parse_json_uncaught(text) ==
    IF Len(text) = 0 \/ IsBlank(text)
    THEN [err |-> ServiceError("LLM_EMPTY_RESPONSE", "LLM returned empty response"),
          parsed |-> PyNull]
    ELSE LET match == JSON_BLOCK_RE(text) IN
         IF ~match.found
         THEN [err |-> ServiceError("LLM_INVALID_OUTPUT",
                                    "No JSON object found in LLM response"),
               parsed |-> PyNull]
         ELSE LET loaded == JsonLoads(SubSeq(text, match.from, match.to)) IN
              IF ~loaded.ok THEN [err |-> OtherError("JSONDecodeError"), parsed |-> PyNull]
              ELSE IF loaded.val.ty # "dict"
                   THEN [err |-> ServiceError("LLM_INVALID_JSON",
                                              "Parsed JSON is not an object"),
                         parsed |-> PyNull]
                   ELSE [err |-> NoError, parsed |-> loaded.val]

\* safe_parse_json testing only `not text`, not `not text.strip()`
safe_parse_json_unstripped(text) ==
    IF Len(text) = 0
    THEN [err |-> ServiceError("LLM_EMPTY_RESPONSE", "LLM returned empty response"),
          parsed |-> PyNull]
    ELSE LET match == JSON_BLOCK_RE(text) IN
         IF ~match.found
         THEN [err |-> ServiceError("LLM_INVALID_OUTPUT",
                                    "No JSON object found in LLM response"),
               parsed |-> PyNull]
         ELSE LET loaded == JsonLoads(SubSeq(text, match.from, match.to)) IN
              IF ~loaded.ok
              THEN [err |-> ServiceError("LLM_INVALID_JSON",
                                         "Invalid JSON returned by LLM"),
                    parsed |-> PyNull]
              ELSE IF loaded.val.ty # "dict"
                   THEN [err |-> ServiceError("LLM_INVALID_JSON",
                                              "Parsed JSON is not an object"),
                         parsed |-> PyNull]
                   ELSE [err |-> NoError, parsed |-> loaded.val]

safe_parse_json(text) ==
    IF Len(text) = 0 \/ IsBlank(text)
    THEN [err |-> ServiceError("LLM_EMPTY_RESPONSE", "LLM returned empty response"),
          parsed |-> PyNull]
    ELSE LET match == JSON_BLOCK_RE(text) IN
         IF ~match.found
         THEN [err |-> ServiceError("LLM_INVALID_OUTPUT",
                                    "No JSON object found in LLM response"),
               parsed |-> PyNull]
         ELSE LET json_str == SubSeq(text, match.from, match.to)
                  loaded == JsonLoads(json_str)
              IN  IF ~loaded.ok
                  THEN [err |-> ServiceError("LLM_INVALID_JSON",
                                             "Invalid JSON returned by LLM"),
                        parsed |-> PyNull]
                  ELSE IF loaded.val.ty # "dict"
                       THEN [err |-> ServiceError("LLM_INVALID_JSON",
                                                  "Parsed JSON is not an object"),
                             parsed |-> PyNull]
                       ELSE [err |-> NoError, parsed |-> loaded.val]

\* ------------------------------------------------- output_validator.py
required_fields == <<"subject", "greeting", "body", "closing">>
KeyText ==
    [subject |-> Word("subject", 7), greeting |-> Word("greeting", 8),
     body |-> Word("body", 4), closing |-> Word("closing", 7)]

\* Steps 1 and 2 of the loop body for one field
FieldError(data, f) ==
    IF KeyText[f] \notin DOMAIN data THEN ValueError("Missing field", f)
    ELSE LET value == data[KeyText[f]] IN
         IF value.ty # "str" \/ StrLen(Strip(value.s)) = 0
         THEN ValueError("Empty field", f)
         ELSE NoError

\* Step 3 without its logger.warning
WarnedBy_silent(data, f) == {}

\* Step 3: logger.warning for a field in which the placeholder pattern matches
WarnedBy(data, f) == IF PlaceholderSearch(data[KeyText[f]].s) THEN {f} ELSE {}

\* The loop over required_fields from field i on; warned collects the fields
\* a warning was logged for
RECURSIVE CheckFields(_, _, _)
CheckFields(data, i, warned) ==
    IF i > Len(required_fields) THEN [err |-> NoError, warned |-> warned]
    ELSE LET e == FieldError(data, required_fields[i]) IN
         IF e # NoError THEN [err |-> e, warned |-> warned]
         ELSE CheckFields(data, i + 1, warned \cup WarnedBy(data, required_fields[i]))

\* validate_email_output without its body length check
validate_email_output_any_body(data) ==
    LET r == CheckFields(data, 1, {}) IN
    IF r.err # NoError THEN r
    ELSE IF StrLen(data[KeyText.subject].s) > SubjectMaxLen
         THEN [err |-> ValueError("Subject too long", "subject"), warned |-> r.warned]
         ELSE r

\* validate_email_output with a subject limit below the one the prompt states
validate_email_output_short_subject(data) ==
    LET r == CheckFields(data, 1, {}) IN
    IF r.err # NoError THEN r
    ELSE IF StrLen(data[KeyText.subject].s) > PromptSubjectMax \div 2
         THEN [err |-> ValueError("Subject too long", "subject"), warned |-> r.warned]
         ELSE IF StrLen(data[KeyText.body].s) < BodyMinLen
              THEN [err |-> ValueError("Body too short", "body"), warned |-> r.warned]
              ELSE r

validate_email_output(data) ==
    LET r == CheckFields(data, 1, {}) IN
    IF r.err # NoError THEN r
    ELSE IF StrLen(data[KeyText.subject].s) > SubjectMaxLen
         THEN [err |-> ValueError("Subject too long", "subject"), warned |-> r.warned]
         ELSE IF StrLen(data[KeyText.body].s) < BodyMinLen
              THEN [err |-> ValueError("Body too short", "body"), warned |-> r.warned]
              ELSE r

\* EmailResponse(**parsed): the four declared fields, other keys ignored
EmailResponse(data) ==
    [subject |-> data[KeyText.subject].s, greeting |-> data[KeyText.greeting].s,
     body |-> data[KeyText.body].s, closing |-> data[KeyText.closing].s]
NoResponse == [subject |-> <<>>, greeting |-> <<>>, body |-> <<>>, closing |-> <<>>]

\* ------------------------------------------------------------ control.py
DefaultControls == [tone |-> "professional", length |-> "medium", recipient |-> "Recipient"]

\* The threshold test made strict: confidence > INTENT_CONFIDENCE_THRESHOLD
ApplyIntent_strict(controls, intent, confidence) ==
    IF confidence > INTENT_CONFIDENCE_THRESHOLD
    THEN [controls EXCEPT !.recipient =
            IF intent = "HR_EMAIL" THEN "HR"
            ELSE IF intent = "MANAGER_EMAIL" THEN "Manager"
            ELSE IF intent = "CLIENT_EMAIL" THEN "Client"
            ELSE IF intent = "COLLEGE_EMAIL" THEN "College"
            ELSE "Recipient"]
    ELSE controls

\* Lines 48-58: the try body after predict_intent has returned
ApplyIntent(controls, intent, confidence) ==
    IF confidence >= INTENT_CONFIDENCE_THRESHOLD
    THEN [controls EXCEPT !.recipient =
            IF intent = "HR_EMAIL" THEN "HR"
            ELSE IF intent = "MANAGER_EMAIL" THEN "Manager"
            ELSE IF intent = "CLIENT_EMAIL" THEN "Client"
            ELSE IF intent = "COLLEGE_EMAIL" THEN "College"
            ELSE "Recipient"]
    ELSE controls

\* ------------------------------------------------------------- prompt.py
\* user_details values: "" stands for None or an empty string (both falsy)
sig_block(user_details) ==
    <<<<user_details.name>>>>
    \o (IF user_details.role = "student" /\ user_details.university # ""
        THEN <<<<"Student", user_details.university>>>>
        ELSE IF user_details.role = "professional" /\ user_details.company # ""
        THEN <<<<"Employee", user_details.company>>>>
        ELSE IF user_details.role = "business" /\ user_details.company # ""
        THEN <<<<"Owner", user_details.company>>>>
        ELSE <<>>)
    \o (IF user_details.email # "" THEN <<<<user_details.email>>>> ELSE <<>>)

system_role(role) ==
    IF role = "student" THEN "polite university student"
    ELSE IF role = "business" THEN "experienced business owner"
    ELSE "expert professional email writer"

\* The prompt, by the parts the f-string is made of; subject_max is the number
\* in rule 4 ("subject": Max 100 chars)
build_prompt(controls, description, user_details) ==
    [system_role |-> system_role(user_details.role),
     tone |-> controls.tone, length |-> controls.length,
     recipient |-> controls.recipient,
     subject_max |-> PromptSubjectMax,
     signature |-> sig_block(user_details),
     description |-> description.runs]
NoPrompt ==
    [system_role |-> "", tone |-> "", length |-> "", recipient |-> "",
     subject_max |-> 0, signature |-> <<>>, description |-> <<>>]

\* ------------------------------------------------------------ llm/client.py
\* What requests.post meets: a transport failure, or an HTTP response with a
\* status and a body (a chat reply carrying message.content, a JSON document
\* without it, or no JSON at all).
call_llm(response) ==
    IF response.transport # "ok"
    THEN [err |-> OtherError(response.transport), text |-> <<>>]
    ELSE IF response.status >= 400
         THEN [err |-> OtherError("HTTPError"), text |-> <<>>]
         ELSE IF response.body = "not_json"
              THEN [err |-> OtherError("JSONDecodeError"), text |-> <<>>]
              ELSE IF response.body = "no_message"
                   THEN [err |-> OtherError("KeyError"), text |-> <<>>]
                   ELSE [err |-> NoError, text |-> response.content]

\* ------------------------------------------------------------------ inputs
Labels == {"HR_EMAIL", "MANAGER_EMAIL", "CLIENT_EMAIL", "COLLEGE_EMAIL", "OTHER_EMAIL"}
Confidences ==
    {0, INTENT_CONFIDENCE_THRESHOLD - 1, INTENT_CONFIDENCE_THRESHOLD,
     INTENT_CONFIDENCE_THRESHOLD + 1, 100}

\* What the classifier computes on a text: the best class and its
\* probability, or an exception out of transform / predict_proba.
Feature(intent, confidence) ==
    [raises |-> FALSE, intent |-> intent, confidence |-> confidence]
RaisingFeature == [raises |-> TRUE, intent |-> "", confidence |-> 0]
AllFeatures == {Feature(l, c) : l \in Labels, c \in Confidences} \cup {RaisingFeature}
ServiceFeatures ==
    {Feature("HR_EMAIL", 100), Feature("COLLEGE_EMAIL", INTENT_CONFIDENCE_THRESHOLD),
     Feature("CLIENT_EMAIL", INTENT_CONFIDENCE_THRESHOLD - 1), RaisingFeature}

Description(runs, feat) == [none |-> FALSE, runs |-> runs, feat |-> feat]
AbsentDescription == [none |-> TRUE, runs |-> <<>>, feat |-> RaisingFeature]

DescCounts == {1, MinDescLen - 1, MinDescLen, MaxDescLen, MaxDescLen + 1}
RunOptions == {Run(c, n) : c \in {"sp", "ch"}, n \in DescCounts}
AllRuns(k) == UNION {[1..n -> RunOptions] : n \in 0..k}

\* Any text at all, for a direct call of validate_description
ValidatorDescriptions ==
    {Description(r, RaisingFeature) : r \in AllRuns(MaxDescRuns)} \cup {AbsentDescription}
\* Any text at all, for a direct call of infer_controls
InferDescriptions ==
    {Description(r, f) : r \in {<<>>, Chars(3), Spaces(2) \o Chars(40)}, f \in AllFeatures}
        \cup {AbsentDescription}
\* Descriptions an EmailRequest holds (schema.py: min_length 10, max_length 500)
ServiceDescriptions ==
    {Description(r, f) :
        r \in {Chars(MinDescLen), Chars(MaxDescLen), Spaces(MinDescLen - 1) \o Chars(1)},
        f \in ServiceFeatures}
ConcurrentDescriptions ==
    {Description(Chars(MinDescLen), Feature("HR_EMAIL", 100)),
     Description(<<>>, Feature("MANAGER_EMAIL", INTENT_CONFIDENCE_THRESHOLD)),
     Description(Chars(3), RaisingFeature)}

EmailRequest(description, name, email, sender, company, university) ==
    [description |-> description, user_name |-> name, user_email |-> email,
     sender_type |-> sender, user_company |-> company, user_university |-> university]
Senders ==
    {<<"Ana", "", "student", "", "MIT">>,
     <<"Bob", "bob@acme.io", "professional", "Acme", "">>,
     <<"Cy", "", "business", "", "">>}
NoRequest == EmailRequest(AbsentDescription, "", "", "", "", "")
TextRequest(description) == EmailRequest(description, "", "", "", "", "")

\* Texts of the fields of a reply
SubjectOk == Chars(12)
GreetingOk == Chars(4) \o Spaces(1) \o Chars(16)
BodyOk == Chars(40) \o Spaces(1) \o Chars(20)
ClosingOk == Chars(13) \o <<Run("nl", 1)>> \o Chars(3)
WithPlaceholder == <<Run("lb", 1), Run("ch", 4), Run("rb", 1)>> \o Spaces(1) \o Chars(12)
BrokenPlaceholder ==
    <<Run("lb", 1), Run("ch", 4), Run("nl", 1), Run("rb", 1)>> \o Chars(12)

Member(f, v) == <<KeyText[f], v>>
GoodItems ==
    <<Member("subject", PyStr(SubjectOk)), Member("greeting", PyStr(GreetingOk)),
      Member("body", PyStr(BodyOk)), Member("closing", PyStr(ClosingOk))>>
Without(items, i) == SubSeq(items, 1, i - 1) \o SubSeq(items, i + 1, Len(items))

AnyFieldValues ==
    {PyNum, PyNull, PyList(<<PyNum>>), PyStr(<<>>), PyStr(Spaces(3)),
     PyStr(<<Run("nl", 2)>>), PyStr(WithPlaceholder), PyStr(BrokenPlaceholder)}
FieldValues(i) ==
    AnyFieldValues
    \cup (IF required_fields[i] = "subject"
          THEN {PyStr(Chars(n)) :
                  n \in {PromptSubjectMax, PromptSubjectMax + 1,
                         SubjectMaxLen, SubjectMaxLen + 1}}
          ELSE {})
    \cup (IF required_fields[i] = "body"
          THEN {PyStr(Chars(BodyMinLen - 1)), PyStr(Chars(BodyMinLen)),
                PyStr(Spaces(BodyMinLen - 1) \o Chars(1))}
          ELSE {})

\* The good email with one field changed or dropped, with a key of its own,
\* with a key given twice, and with several faults at once
EmailObjects ==
    {ObjLit(GoodItems)}
    \cup UNION {{ObjLit([GoodItems EXCEPT ![i][2] = v]) : v \in FieldValues(i)} :
                  i \in 1..Len(GoodItems)}
    \cup {ObjLit(Without(GoodItems, i)) : i \in 1..Len(GoodItems)}
    \cup {ObjLit(GoodItems \o <<<<Word("note", 4), PyNum>>>>),
          ObjLit(<<Member("subject", PyNum)>> \o GoodItems),
          ObjLit([GoodItems EXCEPT ![1][2] = PyStr(WithPlaceholder),
                                   ![3][2] = PyStr(Chars(BodyMinLen - 1))]),
          ObjLit([GoodItems EXCEPT ![2][2] = PyStr(WithPlaceholder),
                                   ![4][2] = PyStr(WithPlaceholder \o WithPlaceholder)])}
\* Objects set in text around them
EmbeddedObjects ==
    {ObjLit(GoodItems), ObjLit(<<>>),
     ObjLit(<<<<Word("a", 1), ObjLit(<<<<Word("b", 1), PyNum>>>>)>>,
              <<Word("c", 1), PyList(<<PyNum, PyStr(Chars(2))>>)>>>>)}
Prefixes ==
    {<<>>, Prose(2), <<Tok("ws")>>, <<Tok("}")>>, <<Tok("[")>>, <<Tok("{")>>,
     <<Tok("x"), Tok("{"), Tok("}"), Tok("ws")>>}
Suffixes ==
    {<<>>, Prose(1), <<Tok("ws")>>, <<Tok("{")>>, <<Tok("]")>>, <<Tok("}")>>,
     <<Tok("ws"), Tok("{"), Tok("}")>>}

\* A reply and how it was made: an object between a prefix and a suffix
\* (embedded), or any other text
Embedded(prefix, obj, suffix) ==
    [text |-> prefix \o Serialise(obj) \o suffix, embedded |-> TRUE,
     prefix |-> prefix, obj |-> obj, suffix |-> suffix]
OtherText(text) ==
    [text |-> text, embedded |-> FALSE, prefix |-> <<>>, obj |-> PyNull, suffix |-> <<>>]
NoReply == OtherText(<<>>)
Replies ==
    {Embedded(<<>>, o, <<>>) : o \in EmailObjects}
    \cup {Embedded(p, o, s) : p \in Prefixes, o \in EmbeddedObjects, s \in Suffixes}
    \cup {OtherText(x) :
            x \in {<<>>, <<Tok("ws")>>, <<Tok("ws"), Tok("ws")>>, Prose(3),
                   Serialise(PyList(<<PyNum, PyNum, PyNum>>)),
                   Serialise(PyNum), Serialise(PyStr(Chars(5))), Serialise(PyNull),
                   <<Tok("{")>>, <<Tok("}")>>, <<Tok("}"), Tok("{")>>,
                   <<Tok("{"), StrTok(Chars(1)), Tok("}")>>,
                   <<Tok("{"), StrTok(Chars(1)), Tok(":"), Tok("num"), Tok(","), Tok("}")>>,
                   <<Tok("{"), Tok("x"), Tok("}")>>,
                   <<Tok("{"), Tok("num"), Tok(":"), Tok("num"), Tok("}")>>}}

BackendFailure(transport, status, body) ==
    [transport |-> transport, status |-> status, body |-> body, reply |-> NoReply,
     content |-> <<>>]
BackendReply(reply) ==
    [transport |-> "ok", status |-> 200, body |-> "chat", reply |-> reply,
     content |-> reply.text]
BackendResponses ==
    {BackendFailure("ConnectionError", 0, ""), BackendFailure("Timeout", 0, ""),
     BackendFailure("ok", 500, "chat"), BackendFailure("ok", 200, "not_json"),
     BackendFailure("ok", 200, "no_message")}
    \cup {BackendReply(r) : r \in Replies}

\* ------------------------------------------------------------------- state
VARIABLES
    vectorizer_file,  \* app/ml/model/vectorizer.pkl exists
    model_file,       \* app/ml/model/intent_model.pkl exists
    _vectorizer,      \* intent_predictor._vectorizer: "None" or "loaded"
    _model,           \* intent_predictor._model: "None" or "loaded"
    trainer,          \* where train_intent_model.py is
    pc,               \* per thread: the line it is at
    entry,            \* per thread: the function that was called
    req,              \* per thread: the request
    controls,         \* per thread: infer_controls' controls
    prompt,           \* per thread: build_prompt's result
    raw_output,       \* per thread: call_llm's result
    parsed,           \* per thread: safe_parse_json's result
    result,           \* per thread: the EmailResponse returned
    error,            \* per thread: the exception that left the call
    warned,           \* per thread: fields logger.warning was called for
    trace,            \* per thread: the stages run so far, each with its outcome
    pred,             \* per thread: how predict_intent ended
    sent,             \* per thread: how the backend made its reply
    partial_load      \* some load_model stored the vectorizer and then raised

vars ==
    <<vectorizer_file, model_file, _vectorizer, _model, trainer, pc, entry, req,
      controls, prompt, raw_output, parsed, result, error, warned, trace, pred,
      sent, partial_load>>
files == <<vectorizer_file, model_file, trainer>>
globals == <<_vectorizer, _model>>
locals == <<controls, prompt, raw_output, parsed, result, error, warned, sent>>

NoPrediction == [state |-> "none", intent |-> "", confidence |-> 0]
Raised(type) == [state |-> type, intent |-> "", confidence |-> 0]
Predicted(intent, confidence) ==
    [state |-> "returned", intent |-> intent, confidence |-> confidence]

Stage(name, e) == [stage |-> name, ok |-> e = NoError]

\* No request served by any thread yet, with `calls` the calls the threads
\* are about to make (thread -> [entry, req]); a thread outside DOMAIN calls
\* stays idle.
Fresh(calls) ==
    /\ pc = [t \in Threads |->
                IF t \notin DOMAIN calls THEN "idle"
                ELSE IF calls[t].entry = "validate_description" THEN "vd_call"
                ELSE IF calls[t].entry = "infer_controls" THEN "ic_call"
                ELSE "svc_validate"]
    /\ entry = [t \in Threads |-> IF t \in DOMAIN calls THEN calls[t].entry ELSE "none"]
    /\ req = [t \in Threads |-> IF t \in DOMAIN calls THEN calls[t].req ELSE NoRequest]
    /\ controls = [t \in Threads |-> DefaultControls]
    /\ prompt = [t \in Threads |-> NoPrompt]
    /\ raw_output = [t \in Threads |-> <<>>]
    /\ parsed = [t \in Threads |-> PyNull]
    /\ result = [t \in Threads |-> NoResponse]
    /\ error = [t \in Threads |-> NoError]
    /\ warned = [t \in Threads |-> {}]
    /\ trace = [t \in Threads |-> <<>>]
    /\ pred = [t \in Threads |-> NoPrediction]
    /\ sent = [t \in Threads |-> NoReply]
    /\ partial_load = FALSE

Call(e, r) == [entry |-> e, req |-> r]
Calls ==
    {Call("validate_description", TextRequest(d)) : d \in ValidatorDescriptions}
    \cup {Call("infer_controls", TextRequest(d)) : d \in InferDescriptions}
    \cup {Call("generate_email_service", EmailRequest(d, u[1], u[2], u[3], u[4], u[5])) :
            d \in ServiceDescriptions, u \in Senders}

\* The module globals of a process that has just started (both None), or
\* that has served requests before: load_model stores the vectorizer before
\* the model, each from its file, and nothing ever resets them.
Loaded ==
    /\ _vectorizer \in {"None", "loaded"}
    /\ _model \in {"None", "loaded"}
    /\ _vectorizer = "loaded" => vectorizer_file
    /\ _model = "loaded" => model_file /\ _vectorizer = "loaded"

\* One call, of any of the three functions
Init ==
    /\ vectorizer_file \in BOOLEAN
    /\ model_file \in BOOLEAN
    /\ trainer = "off"
    /\ Loaded
    /\ \E c \in Calls : Fresh(1 :> c)

\* Every thread in infer_controls at once, while the training script may run
InitConcurrent ==
    /\ vectorizer_file \in BOOLEAN
    /\ model_file \in BOOLEAN
    /\ trainer = "start"
    /\ _vectorizer = "None"
    /\ _model = "None"
    /\ \E ds \in [Threads -> ConcurrentDescriptions] :
          Fresh([t \in Threads |-> Call("infer_controls", TextRequest(ds[t]))])

\* ------------------------------------------------- direct call, validator.py
Call_validate_description(t) ==
    /\ pc[t] = "vd_call"
    /\ LET e == validate_description(req[t].description) IN
       /\ error' = [error EXCEPT ![t] = e]
       /\ trace' = [trace EXCEPT ![t] = Append(@, Stage("validate_description", e))]
       /\ pc' = [pc EXCEPT ![t] = IF e = NoError THEN "done" ELSE "failed"]
    /\ UNCHANGED <<files, globals, entry, req, controls, prompt, raw_output, parsed,
                   result, warned, pred, sent, partial_load>>

\* ------------------------------------------------------------- service.py
\* Line 33 with the validator's error swallowed: the pipeline goes on
Service_validate_description_swallow(t) ==
    /\ pc[t] = "svc_validate"
    /\ LET e == validate_description(req[t].description) IN
       /\ error' = [error EXCEPT ![t] = e]
       /\ trace' = [trace EXCEPT ![t] = Append(@, Stage("validate_description", e))]
       /\ pc' = [pc EXCEPT ![t] = "ic_call"]
    /\ UNCHANGED <<files, globals, entry, req, controls, prompt, raw_output, parsed,
                   result, warned, pred, sent, partial_load>>

\* Line 33
Service_validate_description(t) ==
    /\ pc[t] = "svc_validate"
    /\ LET e == validate_description(req[t].description) IN
       /\ error' = [error EXCEPT ![t] = e]
       /\ trace' = [trace EXCEPT ![t] = Append(@, Stage("validate_description", e))]
       /\ pc' = [pc EXCEPT ![t] = IF e = NoError THEN "ic_call" ELSE "failed"]
    /\ UNCHANGED <<files, globals, entry, req, controls, prompt, raw_output, parsed,
                   result, warned, pred, sent, partial_load>>

\* ------------------------------------------------------------- control.py
\* Lines 38-46: the default controls, and into predict_intent and load_model
Infer_call(t) ==
    /\ pc[t] = "ic_call"
    /\ controls' = [controls EXCEPT ![t] = DefaultControls]
    /\ pc' = [pc EXCEPT ![t] = "lm_check_v"]
    /\ UNCHANGED <<files, globals, entry, req, prompt, raw_output, parsed, result,
                   error, warned, trace, pred, sent, partial_load>>

\* -------------------------------------------------- intent_predictor.py
\* Line 14 testing the vectorizer alone: if _vectorizer is None
Load_check_vectorizer_only(t) ==
    /\ pc[t] = "lm_check_v"
    /\ pc' = [pc EXCEPT ![t] = IF _vectorizer = "None" THEN "lm_open_v" ELSE "pi_transform"]
    /\ UNCHANGED <<files, globals, entry, req, locals, trace, pred, partial_load>>

\* Line 14, left operand: _vectorizer is None
Load_check_vectorizer(t) ==
    /\ pc[t] = "lm_check_v"
    /\ pc' = [pc EXCEPT ![t] = IF _vectorizer = "None" THEN "lm_open_v" ELSE "lm_check_m"]
    /\ UNCHANGED <<files, globals, entry, req, locals, trace, pred, partial_load>>

\* Line 14, right operand: _model is None
Load_check_model(t) ==
    /\ pc[t] = "lm_check_m"
    /\ pc' = [pc EXCEPT ![t] = IF _model = "None" THEN "lm_open_v" ELSE "pi_transform"]
    /\ UNCHANGED <<files, globals, entry, req, locals, trace, pred, partial_load>>

\* Line 15: open vectorizer.pkl, FileNotFoundError when it is not there
Load_open_vectorizer(t) ==
    /\ pc[t] = "lm_open_v"
    /\ IF vectorizer_file
       THEN /\ pc' = [pc EXCEPT ![t] = "lm_store_v"]
            /\ pred' = pred
       ELSE /\ pc' = [pc EXCEPT ![t] = "ic_except"]
            /\ pred' = [pred EXCEPT ![t] = Raised("FileNotFoundError")]
    /\ UNCHANGED <<files, globals, entry, req, locals, trace, partial_load>>

\* Line 16: _vectorizer = pickle.load(f)
Load_store_vectorizer(t) ==
    /\ pc[t] = "lm_store_v"
    /\ _vectorizer' = "loaded"
    /\ pc' = [pc EXCEPT ![t] = "lm_open_m"]
    /\ UNCHANGED <<files, _model, entry, req, locals, trace, pred, partial_load>>

\* Line 18: open intent_model.pkl
Load_open_model(t) ==
    /\ pc[t] = "lm_open_m"
    /\ IF model_file
       THEN /\ pc' = [pc EXCEPT ![t] = "lm_store_m"]
            /\ UNCHANGED <<pred, partial_load>>
       ELSE /\ pc' = [pc EXCEPT ![t] = "ic_except"]
            /\ pred' = [pred EXCEPT ![t] = Raised("FileNotFoundError")]
            /\ partial_load' = TRUE
    /\ UNCHANGED <<files, globals, entry, req, locals, trace>>

\* Line 19: _model = pickle.load(f); load_model returns
Load_store_model(t) ==
    /\ pc[t] = "lm_store_m"
    /\ _model' = "loaded"
    /\ pc' = [pc EXCEPT ![t] = "pi_transform"]
    /\ UNCHANGED <<files, _vectorizer, entry, req, locals, trace, pred, partial_load>>

\* Line 29: _vectorizer.transform([text])
Predict_transform(t) ==
    /\ pc[t] = "pi_transform"
    /\ IF _vectorizer = "None"
       THEN /\ pc' = [pc EXCEPT ![t] = "ic_except"]
            /\ pred' = [pred EXCEPT ![t] = Raised("AttributeError")]
       ELSE IF req[t].description.feat.raises
            THEN /\ pc' = [pc EXCEPT ![t] = "ic_except"]
                 /\ pred' = [pred EXCEPT ![t] = Raised("Exception")]
            ELSE /\ pc' = [pc EXCEPT ![t] = "pi_proba"]
                 /\ pred' = pred
    /\ UNCHANGED <<files, globals, entry, req, locals, trace, partial_load>>

\* Line 30: _model.predict_proba(X)
Predict_proba(t) ==
    /\ pc[t] = "pi_proba"
    /\ IF _model = "None"
       THEN /\ pc' = [pc EXCEPT ![t] = "ic_except"]
            /\ pred' = [pred EXCEPT ![t] = Raised("AttributeError")]
       ELSE /\ pc' = [pc EXCEPT ![t] = "pi_classes"]
            /\ pred' = pred
    /\ UNCHANGED <<files, globals, entry, req, locals, trace, partial_load>>

\* Lines 32-36: _model.classes_[best_idx], and the pair is returned
Predict_classes(t) ==
    /\ pc[t] = "pi_classes"
    /\ IF _model = "None"
       THEN /\ pc' = [pc EXCEPT ![t] = "ic_except"]
            /\ pred' = [pred EXCEPT ![t] = Raised("AttributeError")]
       ELSE /\ pc' = [pc EXCEPT ![t] = "ic_decide"]
            /\ pred' = [pred EXCEPT ![t] =
                          Predicted(req[t].description.feat.intent,
                                    req[t].description.feat.confidence)]
    /\ UNCHANGED <<files, globals, entry, req, locals, trace, partial_load>>

\* ------------------------------------------------------------- control.py
\* Where infer_controls returns to: its caller in service.py (line 36), or
\* whoever called it directly
InferReturn(t) == IF entry[t] = "infer_controls" THEN "done" ELSE "svc_prompt"

\* Lines 46-58 and 66: the pair is unpacked, the recipient set, controls returned
Infer_decide(t) ==
    /\ pc[t] = "ic_decide"
    /\ controls' = [controls EXCEPT ![t] = ApplyIntent(@, pred[t].intent, pred[t].confidence)]
    /\ trace' = [trace EXCEPT ![t] = Append(@, Stage("infer_controls", NoError))]
    /\ pc' = [pc EXCEPT ![t] = InferReturn(t)]
    /\ UNCHANGED <<files, globals, entry, req, prompt, raw_output, parsed, result,
                   error, warned, pred, sent, partial_load>>

\* Lines 62-66: except Exception: pass, controls returned as they are
Infer_except(t) ==
    /\ pc[t] = "ic_except"
    /\ trace' = [trace EXCEPT ![t] = Append(@, Stage("infer_controls", NoError))]
    /\ pc' = [pc EXCEPT ![t] = InferReturn(t)]
    /\ UNCHANGED <<files, globals, entry, req, locals, pred, partial_load>>

\* ------------------------------------------------------------- service.py
\* Lines 43-55
Service_build_prompt(t) ==
    /\ pc[t] = "svc_prompt"
    /\ prompt' = [prompt EXCEPT ![t] =
                    build_prompt(controls[t], req[t].description,
                                 [name |-> req[t].user_name, email |-> req[t].user_email,
                                  role |-> req[t].sender_type,
                                  company |-> req[t].user_company,
                                  university |-> req[t].user_university])]
    /\ trace' = [trace EXCEPT ![t] = Append(@, Stage("build_prompt", NoError))]
    /\ pc' = [pc EXCEPT ![t] = "svc_llm"]
    /\ UNCHANGED <<files, globals, entry, req, controls, raw_output, parsed, result,
                   error, warned, pred, sent, partial_load>>

\* Line 58
Service_call_llm(t) ==
    /\ pc[t] = "svc_llm"
    /\ \E response \in BackendResponses :
          LET r == call_llm(response) IN
          /\ raw_output' = [raw_output EXCEPT ![t] = r.text]
          /\ sent' = [sent EXCEPT ![t] = response.reply]
          /\ error' = [error EXCEPT ![t] = r.err]
          /\ trace' = [trace EXCEPT ![t] = Append(@, Stage("call_llm", r.err))]
          /\ pc' = [pc EXCEPT ![t] = IF r.err = NoError THEN "svc_parse" ELSE "failed"]
    /\ UNCHANGED <<files, globals, entry, req, controls, prompt, parsed, result,
                   warned, pred, partial_load>>

\* Line 62
Service_safe_parse_json(t) ==
    /\ pc[t] = "svc_parse"
    /\ LET r == safe_parse_json(raw_output[t]) IN
       /\ parsed' = [parsed EXCEPT ![t] = r.parsed]
       /\ error' = [error EXCEPT ![t] = r.err]
       /\ trace' = [trace EXCEPT ![t] = Append(@, Stage("safe_parse_json", r.err))]
       /\ pc' = [pc EXCEPT ![t] = IF r.err = NoError THEN "svc_check" ELSE "failed"]
    /\ UNCHANGED <<files, globals, entry, req, controls, prompt, raw_output, result,
                   warned, pred, sent, partial_load>>

\* Line 65
Service_validate_email_output(t) ==
    /\ pc[t] = "svc_check"
    /\ LET r == validate_email_output(parsed[t].map) IN
       /\ warned' = [warned EXCEPT ![t] = r.warned]
       /\ error' = [error EXCEPT ![t] = r.err]
       /\ trace' = [trace EXCEPT ![t] = Append(@, Stage("validate_email_output", r.err))]
       /\ pc' = [pc EXCEPT ![t] = IF r.err = NoError THEN "svc_return" ELSE "failed"]
    /\ UNCHANGED <<files, globals, entry, req, controls, prompt, raw_output, parsed,
                   result, pred, sent, partial_load>>

\* Line 68
Service_return(t) ==
    /\ pc[t] = "svc_return"
    /\ result' = [result EXCEPT ![t] = EmailResponse(parsed[t].map)]
    /\ pc' = [pc EXCEPT ![t] = "done"]
    /\ UNCHANGED <<files, globals, entry, req, controls, prompt, raw_output, parsed,
                   error, warned, trace, pred, sent, partial_load>>

\* ------------------------------------------------------- the environment
\* The next call of infer_controls on a thread whose call has returned
Next_request(t) ==
    /\ pc[t] = "done"
    /\ entry[t] = "infer_controls"
    /\ \E d \in ConcurrentDescriptions :
          req' = [req EXCEPT ![t] = TextRequest(d)]
    /\ pc' = [pc EXCEPT ![t] = "ic_call"]
    /\ controls' = [controls EXCEPT ![t] = DefaultControls]
    /\ pred' = [pred EXCEPT ![t] = NoPrediction]
    /\ trace' = [trace EXCEPT ![t] = <<>>]
    /\ UNCHANGED <<files, globals, entry, prompt, raw_output, parsed, result, error,
                   warned, sent, partial_load>>

\* train_intent_model.py lines 30-31: vectorizer.pkl is written
Train_write_vectorizer ==
    /\ trainer = "start"
    /\ vectorizer_file' = TRUE
    /\ trainer' = "wrote_vectorizer"
    /\ UNCHANGED <<model_file, globals, pc, entry, req, locals, trace, pred, partial_load>>

\* train_intent_model.py lines 33-34: intent_model.pkl is written
Train_write_model ==
    /\ trainer = "wrote_vectorizer"
    /\ model_file' = TRUE
    /\ trainer' = "finished"
    /\ UNCHANGED <<vectorizer_file, globals, pc, entry, req, locals, trace, pred,
                   partial_load>>

Classifier(t) ==
    \/ Infer_call(t)
    \/ Load_check_vectorizer(t)
    \/ Load_check_model(t)
    \/ Load_open_vectorizer(t)
    \/ Load_store_vectorizer(t)
    \/ Load_open_model(t)
    \/ Load_store_model(t)
    \/ Predict_transform(t)
    \/ Predict_proba(t)
    \/ Predict_classes(t)
    \/ Infer_decide(t)
    \/ Infer_except(t)

Next ==
    \E t \in Threads :
        \/ Call_validate_description(t)
        \/ Service_validate_description(t)
        \/ Classifier(t)
        \/ Service_build_prompt(t)
        \/ Service_call_llm(t)
        \/ Service_safe_parse_json(t)
        \/ Service_validate_email_output(t)
        \/ Service_return(t)

NextConcurrent ==
    \/ \E t \in Threads : Classifier(t) \/ Next_request(t)
    \/ Train_write_vectorizer
    \/ Train_write_model

Spec == Init /\ [][Next]_vars
SpecConcurrent == InitConcurrent /\ [][NextConcurrent]_vars

\* ----------------------------------------------------------- vocabulary
StageOrder ==
    <<"validate_description", "infer_controls", "build_prompt", "call_llm",
      "safe_parse_json", "validate_email_output">>
InService(t) == entry[t] = "generate_email_service"
HasRun(t, name) == \E i \in 1..Len(trace[t]) : trace[t][i].stage = name
OkAt(t, name) == \E i \in 1..Len(trace[t]) : trace[t][i].stage = name /\ trace[t][i].ok
\* The call has ended with an exception raised by stage `name`
FailedAt(t, name) ==
    /\ pc[t] = "failed"
    /\ trace[t] # <<>>
    /\ trace[t][Len(trace[t])].stage = name
    /\ ~trace[t][Len(trace[t])].ok
Raises(t, name, code) ==
    FailedAt(t, name) /\ error[t].type = "ServiceError" /\ error[t].code = code

\* ------------------------------------------------------------------- C1
\* C1: in every run of generate_email_service the stages run in the order
\* validate_description, infer_controls, build_prompt, call_llm,
\* safe_parse_json, validate_email_output, each at most once (so call_llm at
\* most once, and only after validate_description succeeded); after a stage
\* has failed no later stage runs and no EmailResponse is returned.
C1_StageOrder ==
    \A t \in Threads : InService(t) =>
        /\ Len(trace[t]) <= Len(StageOrder)
        /\ \A i \in 1..Len(trace[t]) : trace[t][i].stage = StageOrder[i]
        /\ \A i \in 1..(Len(trace[t]) - 1) : trace[t][i].ok
        /\ pc[t] = "failed" => trace[t] # <<>> /\ ~trace[t][Len(trace[t])].ok
        /\ pc[t] = "done" =>
              Len(trace[t]) = Len(StageOrder) /\ \A i \in 1..Len(trace[t]) : trace[t][i].ok
        /\ result[t] # NoResponse => pc[t] = "done"
\* All six stages have run, the last one failed, and nothing is returned.
C1_Witness ==
    \E t \in Threads :
        /\ InService(t)
        /\ FailedAt(t, "validate_email_output")
        /\ Len(trace[t]) = 6
        /\ result[t] = NoResponse

TrimmedLen(d) == StrLen(Strip(d.runs))
RawLen(d) == StrLen(d.runs)
\* C3 as claimed: validate_description fails with INVALID_INPUT when the
\* trimmed length is < 10 (or the input is empty or absent) or the raw length
\* is > 500, and succeeds when the trimmed length is in [10, 500].
C3_Original ==
    \A t \in Threads : HasRun(t, "validate_description") =>
        LET d == req[t].description IN
        /\ (d.none \/ TrimmedLen(d) < 10 \/ RawLen(d) > 500) =>
              Raises(t, "validate_description", "INVALID_INPUT")
        /\ (~d.none /\ TrimmedLen(d) >= 10 /\ TrimmedLen(d) <= 500) =>
              OkAt(t, "validate_description")
\* C3 amended: validate_description fails with INVALID_INPUT when the trimmed
\* length is < 10 (or the input is empty or absent) or the raw length is
\* > 500, and succeeds when the trimmed length is >= 10 and the raw length is
\* <= 500.
C3_LengthGate ==
    \A t \in Threads : HasRun(t, "validate_description") =>
        LET d == req[t].description IN
        /\ (d.none \/ TrimmedLen(d) < 10 \/ RawLen(d) > 500) =>
              Raises(t, "validate_description", "INVALID_INPUT")
        /\ (~d.none /\ TrimmedLen(d) >= 10 /\ RawLen(d) <= 500) =>
              OkAt(t, "validate_description")
\* A description of 500 characters after one blank is rejected: trimmed 500,
\* raw 501.
C3_Witness ==
    \E t \in Threads :
        /\ Raises(t, "validate_description", "INVALID_INPUT")
        /\ TrimmedLen(req[t].description) = 500
        /\ RawLen(req[t].description) = 501

\* ------------------------------------------------------------------- C4
\* The brace-delimited region of a text: from its first "{" to its last "}"
HasBraces(text) ==
    \E i \in 1..Len(text) : \E j \in 1..Len(text) :
        i < j /\ text[i].k = "{" /\ text[j].k = "}"
BraceRegion(text) ==
    LET i == CHOOSE a \in 1..Len(text) :
                 text[a].k = "{" /\ \A b \in 1..(a - 1) : text[b].k # "{"
        j == CHOOSE a \in 1..Len(text) :
                 text[a].k = "}" /\ \A b \in (a + 1)..Len(text) : text[b].k # "}"
    IN  SubSeq(text, i, j)
OnlyWhitespace(text) == ~\E i \in 1..Len(text) : text[i].k # "ws"
\* The reply is, as a whole, a JSON value that is not an object
IsNonObjectJson(text) == JsonLoads(text).ok /\ JsonLoads(text).val.ty # "dict"
Returns(t, value) == OkAt(t, "safe_parse_json") /\ parsed[t] = value

\* C4 as claimed: an empty or whitespace-only reply fails with
\* LLM_EMPTY_RESPONSE, a reply with no brace-delimited region with
\* LLM_INVALID_OUTPUT, a reply that fails to parse or parses to a non-object
\* JSON value such as the array [1,2,3] with LLM_INVALID_JSON, and otherwise
\* the parsed mapping is returned.
C4_Original ==
    \A t \in Threads : HasRun(t, "safe_parse_json") =>
        LET text == raw_output[t] IN
        IF OnlyWhitespace(text) THEN Raises(t, "safe_parse_json", "LLM_EMPTY_RESPONSE")
        ELSE IF IsNonObjectJson(text)
             THEN Raises(t, "safe_parse_json", "LLM_INVALID_JSON")
        ELSE IF ~HasBraces(text) THEN Raises(t, "safe_parse_json", "LLM_INVALID_OUTPUT")
        ELSE IF ~JsonLoads(BraceRegion(text)).ok
             THEN Raises(t, "safe_parse_json", "LLM_INVALID_JSON")
        ELSE Returns(t, JsonLoads(BraceRegion(text)).val)
\* C4 amended: an empty or whitespace-only reply fails with
\* LLM_EMPTY_RESPONSE; a reply with no brace-delimited region, a bare array
\* such as [1,2,3] or a scalar included, fails with LLM_INVALID_OUTPUT; a
\* reply whose region fails to parse fails with LLM_INVALID_JSON; otherwise
\* the region's key-value mapping is returned.  A region starts with "{", so
\* it never parses to a non-object value and "Parsed JSON is not an object"
\* is never raised.
C4_Classification ==
    \A t \in Threads : HasRun(t, "safe_parse_json") =>
        LET text == raw_output[t] IN
        /\ IF OnlyWhitespace(text)
           THEN Raises(t, "safe_parse_json", "LLM_EMPTY_RESPONSE")
           ELSE IF ~HasBraces(text)
                THEN Raises(t, "safe_parse_json", "LLM_INVALID_OUTPUT")
           ELSE IF ~JsonLoads(BraceRegion(text)).ok
                THEN Raises(t, "safe_parse_json", "LLM_INVALID_JSON")
           ELSE Returns(t, JsonLoads(BraceRegion(text)).val) /\ parsed[t].ty = "dict"
        /\ FailedAt(t, "safe_parse_json") => error[t].msg # "Parsed JSON is not an object"
\* The reply [1, 2, 3] is rejected, with LLM_INVALID_OUTPUT.
C4_Witness ==
    \E t \in Threads :
        /\ raw_output[t] = Serialise(PyList(<<PyNum, PyNum, PyNum>>))
        /\ Raises(t, "safe_parse_json", "LLM_INVALID_OUTPUT")

\* ------------------------------------------------------------------- C5
Contains(text, k) == \E i \in 1..Len(text) : text[i].k = k
\* C5 as claimed: for every JSON object O and every prefix and suffix, also
\* ones containing "{" or "}", safe_parse_json(prefix + serialise(O) + suffix)
\* returns exactly the key-value pairs of O.
C5_Original ==
    \A t \in Threads : HasRun(t, "safe_parse_json") /\ sent[t].embedded =>
        Returns(t, PyOf(sent[t].obj))
\* C5 amended: for every JSON object O, every prefix that contains no "{" and
\* every suffix that contains no "}", safe_parse_json(prefix + serialise(O) +
\* suffix) returns exactly the key-value pairs of O.
C5_RoundTrip ==
    \A t \in Threads :
        /\ HasRun(t, "safe_parse_json")
        /\ sent[t].embedded
        /\ ~Contains(sent[t].prefix, "{")
        /\ ~Contains(sent[t].suffix, "}")
        => Returns(t, PyOf(sent[t].obj))
\* An object with a nested object, between prose and a stray "{", is recovered.
C5_Witness ==
    \E t \in Threads :
        /\ sent[t].embedded
        /\ sent[t].prefix = Prose(2)
        /\ sent[t].suffix = <<Tok("ws"), Tok("{"), Tok("}")>> \/ sent[t].suffix = <<Tok("{")>>
        /\ ~Contains(sent[t].suffix, "}")
        /\ \E k \in DOMAIN PyOf(sent[t].obj).map : PyOf(sent[t].obj).map[k].ty = "dict"
        /\ Returns(t, PyOf(sent[t].obj))

\* ------------------------------------------------------------------- C6
NotEmptyTrimmed(s) == \E i \in 1..Len(s) : ~IsSpace(s[i].c) /\ s[i].n > 0
Acceptable(data) ==
    /\ \A f \in {"subject", "greeting", "body", "closing"} :
          /\ KeyText[f] \in DOMAIN data
          /\ data[KeyText[f]].ty = "str"
          /\ NotEmptyTrimmed(data[KeyText[f]].s)
    /\ StrLen(data[KeyText.subject].s) <= 200
    /\ StrLen(data[KeyText.body].s) >= 10
\* C6: validate_email_output rejects every parsed object in which one of
\* subject, greeting, body, closing is missing, is not a string or is empty
\* after trimming, whose subject is longer than 200 or whose body is shorter
\* than 10; generate_email_service returns an EmailResponse only for objects
\* that pass, with the four fields equal to the parsed object's values.
C6_OutputGate ==
    \A t \in Threads : InService(t) =>
        /\ HasRun(t, "validate_email_output") /\ ~Acceptable(parsed[t].map) =>
              FailedAt(t, "validate_email_output") /\ result[t] = NoResponse
        /\ pc[t] = "done" =>
              /\ OkAt(t, "validate_email_output")
              /\ Acceptable(parsed[t].map)
              /\ \A f \in {"subject", "greeting", "body", "closing"} :
                    result[t][f] = parsed[t].map[KeyText[f]].s
        /\ result[t] # NoResponse => pc[t] = "done"
\* An object whose body has 9 characters, all else good, is rejected.
C6_Witness ==
    \E t \in Threads :
        /\ FailedAt(t, "validate_email_output")
        /\ KeyText.body \in DOMAIN parsed[t].map
        /\ parsed[t].map[KeyText.body] = PyStr(Chars(9))
        /\ error[t].msg = "Body too short"

\* ------------------------------------------------------------------- C7
\* A bracketed token: a "[" with a "]" after it on the same line
Bracketed(s) ==
    \E i \in 1..Len(s) : \E j \in (i + 1)..Len(s) :
        s[i].c = "lb" /\ s[j].c = "rb" /\ \A k \in i..j : s[k].c # "nl"
\* C7 as claimed: no EmailResponse returned by generate_email_service holds a
\* bracketed placeholder in subject, greeting, body or closing.
C7_Original ==
    \A t \in Threads : InService(t) /\ pc[t] = "done" =>
        \A f \in {"subject", "greeting", "body", "closing"} : ~Bracketed(result[t][f])
\* C7 amended: an EmailResponse returned by generate_email_service may hold
\* bracketed placeholders: validate_email_output logs a warning for exactly
\* the fields in which one is found, and the fields are returned as parsed.
C7_PlaceholderWarned ==
    \A t \in Threads : InService(t) /\ pc[t] = "done" =>
        /\ warned[t] = {f \in {"subject", "greeting", "body", "closing"} :
                           Bracketed(result[t][f])}
        /\ \A f \in {"subject", "greeting", "body", "closing"} :
              result[t][f] = parsed[t].map[KeyText[f]].s
\* A response is returned whose closing holds a placeholder; a warning was
\* logged for it.
C7_Witness ==
    \E t \in Threads :
        /\ InService(t)
        /\ pc[t] = "done"
        /\ Bracketed(result[t].closing)
        /\ "closing" \in warned[t]

\* ------------------------------------------------------------------- C9
SubjectOf(t) == parsed[t].map[KeyText.subject]
\* C9 as claimed: the subject maximum the prompt states is the maximum the
\* validator enforces: a subject the validator accepts obeys the prompt's
\* limit (and a subject that obeys the prompt's limit passes the validator's
\* subject check).
C9_Original ==
    \A t \in Threads : InService(t) /\ OkAt(t, "validate_email_output") =>
        StrLen(SubjectOf(t).s) <= prompt[t].subject_max
\* C9 amended: build_prompt states a subject maximum of 100 and
\* validate_email_output enforces 200: every subject that obeys the prompt's
\* limit passes the validator's subject check, and every subject the
\* validator accepts has at most 200 characters (it need not obey the
\* prompt's limit).
C9_SubjectLimits ==
    \A t \in Threads : InService(t) /\ HasRun(t, "validate_email_output") =>
        /\ prompt[t].subject_max = 100
        /\ (/\ KeyText.subject \in DOMAIN parsed[t].map
            /\ SubjectOf(t).ty = "str"
            /\ StrLen(SubjectOf(t).s) <= prompt[t].subject_max)
           => ~(FailedAt(t, "validate_email_output") /\ error[t].msg = "Subject too long")
        /\ OkAt(t, "validate_email_output") => StrLen(SubjectOf(t).s) <= 200
\* A subject of 101 characters, over the prompt's limit, is accepted.
C9_Witness ==
    \E t \in Threads :
        /\ InService(t)
        /\ pc[t] = "done"
        /\ StrLen(result[t].subject) = 101
        /\ prompt[t].subject_max = 100

\* ------------------------------------------------------------------- C8
\* The fixed lookup of the intent label
RecipientOf(intent) ==
    CASE intent = "HR_EMAIL" -> "HR"
      [] intent = "MANAGER_EMAIL" -> "Manager"
      [] intent = "CLIENT_EMAIL" -> "Client"
      [] intent = "COLLEGE_EMAIL" -> "College"
      [] OTHER -> "Recipient"
Neutral == [tone |-> "professional", length |-> "medium", recipient |-> "Recipient"]
\* What the classifier did for thread t's text: failed (a model file missing,
\* or an exception out of the model), or returned a label and a confidence
ClassifierFailed(t) == pred[t].state \notin {"none", "returned"}
\* C8: infer_controls returns a Controls value and never raises, whatever the
\* text and whatever the classifier does; when the classifier fails or its
\* confidence is below 0.6 the result is the neutral default, and at
\* confidence >= 0.6 the recipient is the fixed lookup of the intent label.
C8_InferTotal ==
    \A t \in Threads :
        /\ ~FailedAt(t, "infer_controls")
        /\ entry[t] = "infer_controls" => pc[t] # "failed"
        /\ HasRun(t, "infer_controls") =>
              /\ OkAt(t, "infer_controls")
              /\ pred[t].state # "none"
              /\ req[t].description.feat.raises => ClassifierFailed(t)
              /\ pred[t].state = "returned" =>
                    /\ pred[t].intent = req[t].description.feat.intent
                    /\ pred[t].confidence = req[t].description.feat.confidence
              /\ controls[t] =
                    IF ClassifierFailed(t) \/ pred[t].confidence < 60
                    THEN Neutral
                    ELSE [Neutral EXCEPT !.recipient = RecipientOf(pred[t].intent)]
\* infer_controls has returned with the recipient looked up, at a confidence
\* of exactly 0.6.
C8_Witness ==
    \E t \in Threads :
        /\ entry[t] = "infer_controls"
        /\ pc[t] = "done"
        /\ pred[t].state = "returned"
        /\ pred[t].confidence = 60
        /\ controls[t].recipient = "College"

\* ------------------------------------------------------------------ C10
InPredict(t) == pc[t] \in {"pi_transform", "pi_proba", "pi_classes"}
NoUnsetUse ==
    \A t \in Threads :
        /\ InPredict(t) => _vectorizer = "loaded" /\ _model = "loaded"
        /\ pred[t].state # "AttributeError"
\* The controls of a call that has returned are those of its own text
OwnControls ==
    \A t \in Threads : pc[t] = "done" /\ entry[t] = "infer_controls" =>
        /\ pred[t].state = "returned" =>
              controls[t] =
                 IF req[t].description.feat.confidence < 60 THEN Neutral
                 ELSE [Neutral EXCEPT
                          !.recipient = RecipientOf(req[t].description.feat.intent)]
        /\ pred[t].state # "returned" => controls[t] = Neutral
        /\ pred[t].state = "returned" => ~req[t].description.feat.raises
StaySet ==
    /\ _vectorizer = "loaded" => _vectorizer' = "loaded"
    /\ _model = "loaded" => _model' = "loaded"
\* C10: with no locking, in every interleaving of concurrent requests,
\* predict_intent never uses an unset vectorizer or model: a thread is past
\* load_model only with both globals set, a global once set stays set (so a
\* load that failed part-way is made up for by a later request's load), and the
\* controls a request gets are those of its own description.
C10_NoUnsetUse == [](NoUnsetUse /\ OwnControls) /\ [][StaySet]_vars
\* A load failed after storing the vectorizer; a later load has completed
\* it and a request has been classified, while another thread is in
\* predict_intent.
C10_Witness ==
    /\ partial_load
    /\ \E t \in Threads : \E u \in Threads :
          /\ t # u
          /\ pc[t] = "done"
          /\ pred[t].state = "returned"
          /\ controls[t].recipient = "HR"
          /\ InPredict(u)
          /\ req[u].description # req[t].description

=============================================================================
